---- MODULE Spec2Model ----
(***************************************************************************)
(* State-machine model of fritz_cleanup_fritzconnection.py: main() walks   *)
(* service resolution, read-action collection, record extraction,          *)
(* de-duplication, staleness evaluation and connection termination.        *)
(*                                                                         *)
(* Python values are tagged records:                                       *)
(*   None  [t |-> "none"]            int   [t |-> "int",  n |-> 5]         *)
(*   str   [t |-> "str",  s |-> <<"a","b">>]   (a sequence of characters)  *)
(*   dict  [t |-> "dict", items |-> << <<key, value>>, ... >>]             *)
(*         (insertion order kept, keys unique)                             *)
(*   list  [t |-> "list", elems |-> << value, ... >>]                      *)
(* Dictionary keys (field names) are TLA+ strings.  Service names and      *)
(* fragments are character sequences, because the code lower-cases them    *)
(* and searches substrings.                                                *)
(***************************************************************************)
EXTENDS Integers, Sequences, FiniteSets, TLC

VARIABLES
    pc,           \* position of main()
    DRY_RUN,      \* configuration flag (line 19)
    fragments,    \* service_type_fragments handed to try_service
    services,     \* fc.services, in the order the library enumerates it
    ctorFail,     \* service names for which FritzService(fc, name) raises
    svc,          \* the handle try_service returned, or None
    svcActions,   \* svc.actions: declared action |-> declared parameter names
    res,          \* response of the last call_action
    found,        \* result of find_conn_nodes(res)
    connections,  \* the list `connections`
    tz,           \* local UTC offset in seconds (used by datetime.timestamp)
    now2,         \* time.time() in half seconds (a float in the code)
    to_kill,      \* the list `to_kill`
    actPos,       \* position of the loop over actions_to_try
    killPos,      \* position of the loop over to_kill
    closePos,     \* position of the loop over close_actions
    connid,       \* identifier resolved for the current stale connection
    remote,       \* remote host resolved for it
    port,         \* remote port resolved for it
    closed,       \* the flag `closed`
    readLog,      \* read invocations sent to the transport
    closeLog,     \* close invocations sent to the transport
    reports,      \* the per-connection report lines printed at line 190
    outcomes      \* the close outcomes printed at lines 216 and 223

vars == <<pc, DRY_RUN, fragments, services, ctorFail, svc, svcActions, res,
          found, connections, tz, now2, to_kill, actPos, killPos, closePos,
          connid, remote, port, closed, readLog, closeLog, reports,
          outcomes>>

-----------------------------------------------------------------------------
(* Bounds of the explored input space.                                     *)
MaxFrags == 2
MaxServices == 3
MaxDepth == 2
MaxRecs == 3
MaxStale == 2

-----------------------------------------------------------------------------
(* Generic sequence helpers.                                               *)

Range(s) == {s[j] : j \in 1..Len(s)}

SeqsUpTo(S, n) == UNION {[1..m -> S] : m \in 0..n}

RECURSIVE Concat(_)
Concat(ss) == IF ss = <<>> THEN <<>> ELSE Head(ss) \o Concat(Tail(ss))

-----------------------------------------------------------------------------
(* Python values.                                                          *)

None == [t |-> "none"]
PyInt(n) == [t |-> "int", n |-> n]
PyStr(s) == [t |-> "str", s |-> s]
PyDict(items) == [t |-> "dict", items |-> items]
PyList(elems) == [t |-> "list", elems |-> elems]

EmptyStr == PyStr(<<>>)

(* Truth value of a Python object, as `or`, `if x` and `not x` see it.    *)
Truthy(v) ==
    CASE v.t = "none" -> FALSE
      [] v.t = "int"  -> v.n # 0
      [] v.t = "str"  -> Len(v.s) > 0
      [] v.t = "dict" -> Len(v.items) > 0
      [] v.t = "list" -> Len(v.elems) > 0

(* x or y *)
PyOr(x, y) == IF Truthy(x) THEN x ELSE y

Keys(c) == {c.items[j][1] : j \in 1..Len(c.items)}

(* c.get(key): the value stored under key, None when the key is absent.    *)
Get(c, key) ==
    IF key \in Keys(c)
    THEN c.items[CHOOSE j \in 1..Len(c.items) : c.items[j][1] = key][2]
    ELSE None

-----------------------------------------------------------------------------
(* Characters.                                                             *)

UpperCase == <<"A","B","C","D","E","F","G","H","I","J","K","L","M",
               "N","O","P","Q","R","S","T","U","V","W","X","Y","Z">>
LowerCase == <<"a","b","c","d","e","f","g","h","i","j","k","l","m",
               "n","o","p","q","r","s","t","u","v","w","x","y","z">>
DigitChars == <<"0","1","2","3","4","5","6","7","8","9">>

LowerChar(c) ==
    IF \E j \in 1..26 : UpperCase[j] = c
    THEN LowerCase[CHOOSE j \in 1..26 : UpperCase[j] = c]
    ELSE c

(* str.lower() *)
Lower(s) == [j \in 1..Len(s) |-> LowerChar(s[j])]

(* `sub in s` for strings *)
Contains(s, sub) ==
    \E p \in 0..(Len(s) - Len(sub)) :
        \A j \in 1..Len(sub) : s[p + j] = sub[j]

IsDigit(c) == \E j \in 1..10 : DigitChars[j] = c
DigitVal(c) == (CHOOSE j \in 1..10 : DigitChars[j] = c) - 1

-----------------------------------------------------------------------------
(* Service resolution (try_service).                                       *)

(* The handle FritzService(fc, svcname). *)
FritzService(svcname) == [t |-> "service", service_type |-> svcname]

(* Case-sensitive containment: what line 29 would be without .lower().    *)
MatchesCaseSensitive(frag, svcname) == Contains(svcname, frag)

(* frag.lower() in svcname.lower() *)
Matches(frag, svcname) == Contains(Lower(svcname), Lower(frag))

(* The inner loop over fc.services from position j on: the first matching *)
(* name whose handle can be constructed is returned; a constructor that    *)
(* raises is skipped (except ... continue).  None: the loop fell through.  *)
RECURSIVE ScanServices(_, _, _, _)
ScanServices(S, fails, frag, j) ==
    IF j > Len(S) THEN None
    ELSE IF Matches(frag, S[j]) /\ S[j] \notin fails
         THEN FritzService(S[j])
         ELSE ScanServices(S, fails, frag, j + 1)

(* The outer loop over the fragments from position f on. *)
RECURSIVE ScanFragments(_, _, _, _)
ScanFragments(S, fails, F, f) ==
    IF f > Len(F) THEN None
    ELSE IF ScanServices(S, fails, F[f], 1) # None
         THEN ScanServices(S, fails, F[f], 1)
         ELSE ScanFragments(S, fails, F, f + 1)

try_service(S, fails, F) == ScanFragments(S, fails, F, 1)

(* The fragments main() passes (list `candidates`). *)
candidates == <<
    <<"W","A","N","I","P","C","o","n","n","e","c","t","i","o","n">>,
    <<"W","A","N","P","P","P","C","o","n","n","e","c","t","i","o","n">>,
    <<"C","o","n","n","e","c","t","i","o","n","M","a","n","a","g","e","r">>,
    <<"P","P","P","C","o","n","n","e","c","t","i","o","n">>,
    <<"W","A","N","C","o","m","m","o","n","I","n","t","e","r","f","a","c","e","C","o","n","f","i","g">>,
    <<"D","e","v","i","c","e","I","n","f","o">>,
    <<"L","a","y","e","r","3","F","o","r","w","a","r","d","i","n","g">> >>

-----------------------------------------------------------------------------
(* Record extraction (find_conn_nodes, find_conn_nodes2).                  *)

hint_keys == {"RemoteHost", "RemotePort", "Protocol", "BytesSent",
              "BytesReceived", "LastActivity", "LastActive", "ConnectionID",
              "Id", "ID", "State"}

(* keys & hint_keys *)
IsHintDict(obj) == obj.t = "dict" /\ Keys(obj) \cap hint_keys # {}

(* A walk that also descends into a mapping it has just emitted.           *)
RECURSIVE find_conn_nodes_deep(_)
find_conn_nodes_deep(obj) ==
    IF obj.t = "dict"
    THEN (IF Keys(obj) \cap hint_keys # {} THEN <<obj>> ELSE <<>>)
         \o Concat([j \in 1..Len(obj.items) |->
                        find_conn_nodes_deep(obj.items[j][2])])
    ELSE IF obj.t = "list"
         THEN Concat([j \in 1..Len(obj.elems) |->
                          find_conn_nodes_deep(obj.elems[j])])
         ELSE <<>>

RECURSIVE find_conn_nodes(_)
find_conn_nodes(obj) ==
    IF obj.t = "dict"
    THEN IF Keys(obj) \cap hint_keys # {}
         THEN <<obj>>
         ELSE Concat([j \in 1..Len(obj.items) |->
                          find_conn_nodes(obj.items[j][2])])
    ELSE IF obj.t = "list"
         THEN Concat([j \in 1..Len(obj.elems) |->
                          find_conn_nodes(obj.elems[j])])
         ELSE <<>>

RECURSIVE find_conn_nodes2(_)
find_conn_nodes2(obj) ==
    IF obj.t = "dict"
    THEN IF Keys(obj) \cap hint_keys # {}
         THEN <<obj>>
         ELSE Concat([j \in 1..Len(obj.items) |->
                          find_conn_nodes2(obj.items[j][2])])
    ELSE IF obj.t = "list"
         THEN Concat([j \in 1..Len(obj.elems) |->
                          find_conn_nodes2(obj.elems[j])])
         ELSE <<>>

-----------------------------------------------------------------------------
(* De-duplication (lines 149-158).                                         *)

(* Decimal digits of a natural number. *)
RECURSIVE NatDigits(_)
NatDigits(n) ==
    IF n < 10 THEN <<DigitChars[n + 1]>>
    ELSE NatDigits(n \div 10) \o <<DigitChars[(n % 10) + 1]>>

RECURSIVE JoinComma(_)
JoinComma(parts) ==
    IF parts = <<>> THEN <<>>
    ELSE IF Len(parts) = 1 THEN parts[1]
         ELSE parts[1] \o <<",", " ">> \o JoinComma(Tail(parts))

(* repr(v) and str(v).  They differ on strings only: repr quotes them.     *)
(* A dictionary key is rendered as one token holding the quoted name.      *)
RECURSIVE Render(_, _)
Render(v, quoted) ==
    CASE v.t = "none" -> <<"N", "o", "n", "e">>
      [] v.t = "int"  -> IF v.n < 0 THEN <<"-">> \o NatDigits(0 - v.n)
                                   ELSE NatDigits(v.n)
      [] v.t = "str"  -> IF quoted THEN <<"'">> \o v.s \o <<"'">> ELSE v.s
      [] v.t = "dict" ->
            <<"{">> \o
            JoinComma([j \in 1..Len(v.items) |->
                <<"'", v.items[j][1], "'", ":", " ">>
                    \o Render(v.items[j][2], TRUE)])
            \o <<"}">>
      [] v.t = "list" ->
            <<"[">> \o
            JoinComma([j \in 1..Len(v.elems) |-> Render(v.elems[j], TRUE)])
            \o <<"]">>

(* str(v) *)
Str(v) == Render(v, FALSE)

(* Field names in the order Python compares strings (by code point), for   *)
(* every field name that occurs in the modelled records.                   *)
FieldOrder == <<"BytesReceived", "BytesSent", "ConnectionID", "Description",
                "Entry", "ID", "Id", "LastActive", "LastActivity",
                "LastSeen", "NewConnectionList",
                "NewPortMappingNumberOfEntries", "Port", "Protocol",
                "RemoteHost", "RemotePort", "State", "Sub", "Time",
                "Timestamp">>

Rank(name) == CHOOSE j \in 1..Len(FieldOrder) : FieldOrder[j] = name

(* Tuple comparison of (k, str(v)) pairs; the keys of one dict differ, so  *)
(* the first component decides.                                            *)
PairLess(p, q) == Rank(p[1]) < Rank(q[1])

RECURSIVE InsertSorted(_, _)
InsertSorted(p, sorted) ==
    IF sorted = <<>> THEN <<p>>
    ELSE IF PairLess(p, Head(sorted)) THEN <<p>> \o sorted
         ELSE <<Head(sorted)>> \o InsertSorted(p, Tail(sorted))

(* sorted(pairs) *)
RECURSIVE Sorted(_)
Sorted(pairs) ==
    IF pairs = <<>> THEN <<>>
    ELSE InsertSorted(Head(pairs), Sorted(Tail(pairs)))

(* [(k, str(v)) for k, v in c.items()] *)
StrItems(c) == [j \in 1..Len(c.items) |-> <<c.items[j][1], Str(c.items[j][2])>>]

(* The key without sorted(): field order leaks into it.                    *)
ConnectionKeyUnsorted(c) == StrItems(c)

(* key = tuple(sorted([(k, str(v)) for k, v in c.items()])) *)
ConnectionKey(c) == Sorted(StrItems(c))

(* The loop of lines 152-157 from position j on, with the lists built so   *)
(* far; returns `unique`.                                                  *)
RECURSIVE DedupLoop(_, _, _, _)
DedupLoop(conns, j, unique, seen) ==
    IF j > Len(conns) THEN unique
    ELSE IF ConnectionKey(conns[j]) \in seen
         THEN DedupLoop(conns, j + 1, unique, seen)
         ELSE DedupLoop(conns, j + 1, Append(unique, conns[j]),
                        seen \cup {ConnectionKey(conns[j])})

Deduplicate(conns) == DedupLoop(conns, 1, <<>>, {})

-----------------------------------------------------------------------------
(* Timestamp parsing (parse_time_str).                                     *)

THRESHOLD_SECONDS == 3600 * 24

IsSpace(c) == c \in {" ", "\t"}

(* s.strip(), which int() applies to a string argument *)
RECURSIVE Strip(_)
Strip(s) ==
    IF s = <<>> THEN s
    ELSE IF IsSpace(Head(s)) THEN Strip(Tail(s))
    ELSE IF IsSpace(s[Len(s)]) THEN Strip(SubSeq(s, 1, Len(s) - 1))
    ELSE s

(* Digits with single underscores between them, as int() accepts.          *)
IsIntBody(s) ==
    /\ Len(s) > 0
    /\ \A j \in 1..Len(s) : IsDigit(s[j]) \/ s[j] = "_"
    /\ IsDigit(s[1]) /\ IsDigit(s[Len(s)])
    /\ \A j \in 1..(Len(s) - 1) : ~(s[j] = "_" /\ s[j + 1] = "_")

RECURSIVE DigitsValue(_, _)
DigitsValue(s, acc) ==
    IF s = <<>> THEN acc
    ELSE IF Head(s) = "_" THEN DigitsValue(Tail(s), acc)
         ELSE DigitsValue(Tail(s), acc * 10 + DigitVal(Head(s)))

(* int(s): the integer as PyInt, or None where int() raises.               *)
IntOf(v) ==
    IF v.t = "int" THEN v
    ELSE IF v.t # "str" THEN None
    ELSE LET body == Strip(v.s)
             signed == Len(body) > 0 /\ body[1] \in {"+", "-"}
             digits == IF signed THEN Tail(body) ELSE body
         IN  IF ~IsIntBody(digits) THEN None
             ELSE IF signed /\ body[1] = "-"
                  THEN PyInt(0 - DigitsValue(digits, 0))
                  ELSE PyInt(DigitsValue(digits, 0))

(* The formats of `fmts`, as directive and literal tokens.                 *)
fmts == << <<"%Y", "-", "%m", "-", "%d", "T", "%H", ":", "%M", ":", "%S">>,
           <<"%d", ".", "%m", ".", "%Y", " ", "%H", ":", "%M", ":", "%S">>,
           <<"%Y", "-", "%m", "-", "%d", " ", "%H", ":", "%M", ":", "%S">> >>

IsDirective(tok) == tok \in {"%Y", "%m", "%d", "%H", "%M", "%S"}

AllDigits(s) == \A j \in 1..Len(s) : IsDigit(s[j])

(* Does the text match the regular expression strptime uses for the        *)
(* directive?                                                              *)
DirectiveAccepts(tok, text) ==
    IF tok = "%d" /\ Len(text) = 2 /\ text[1] = " "
    THEN IsDigit(text[2]) /\ text[2] # "0"
    ELSE /\ Len(text) > 0
         /\ AllDigits(text)
         /\ LET n == DigitsValue(text, 0)
            IN CASE tok = "%Y" -> Len(text) = 4
                 [] tok = "%m" -> Len(text) <= 2 /\ n \in 1..12
                 [] tok = "%d" -> Len(text) <= 2 /\ n \in 1..31
                 [] tok = "%H" -> Len(text) <= 2 /\ n \in 0..23
                 [] tok = "%M" -> Len(text) <= 2 /\ n \in 0..59
                 [] tok = "%S" -> Len(text) <= 2 /\ n \in 0..61

DirectiveValue(text) ==
    IF text[1] = " " THEN DigitVal(text[2]) ELSE DigitsValue(text, 0)

(* All ways the format from token f on matches s from position p on, as    *)
(* the set of field assignments; empty when strptime raises.               *)
RECURSIVE MatchFormat(_, _, _, _, _)
MatchFormat(s, p, fmt, f, fields) ==
    IF f > Len(fmt)
    THEN IF p = Len(s) + 1 THEN {fields} ELSE {}
    ELSE IF IsDirective(fmt[f])
    THEN UNION { IF DirectiveAccepts(fmt[f], SubSeq(s, p, p + w - 1))
                 THEN MatchFormat(s, p + w, fmt, f + 1,
                        [fields EXCEPT ![fmt[f]] =
                            DirectiveValue(SubSeq(s, p, p + w - 1))])
                 ELSE {}
                 : w \in 1..(IF Len(s) - p + 1 < 4 THEN Len(s) - p + 1 ELSE 4) }
    ELSE IF fmt[f] = " "
    THEN UNION { IF \A j \in p..(p + w - 1) : IsSpace(s[j])
                 THEN MatchFormat(s, p + w, fmt, f + 1, fields)
                 ELSE {}
                 : w \in 1..(Len(s) - p + 1) }
    ELSE IF p <= Len(s) /\ LowerChar(s[p]) = LowerChar(fmt[f])
         THEN MatchFormat(s, p + 1, fmt, f + 1, fields)
         ELSE {}

NoFields == [d \in {"%Y", "%m", "%d", "%H", "%M", "%S"} |-> 0]

IsLeap(y) == (y % 4 = 0 /\ y % 100 # 0) \/ y % 400 = 0

DaysInMonth(y, m) ==
    IF m = 2 THEN (IF IsLeap(y) THEN 29 ELSE 28)
    ELSE IF m \in {4, 6, 9, 11} THEN 30 ELSE 31

(* Days from 1970-01-01 to the civil date y-m-d (proleptic Gregorian).     *)
DaysFromCivil(y, m, d) ==
    LET yy  == IF m <= 2 THEN y - 1 ELSE y
        era == yy \div 400
        yoe == yy - era * 400
        mp  == IF m > 2 THEN m - 3 ELSE m + 9
        doy == (153 * mp + 2) \div 5 + d - 1
        doe == yoe * 365 + yoe \div 4 - yoe \div 100 + doy
    IN  era * 146097 + doe - 719468

(* The datetime constructor accepts the fields. *)
ValidDateTime(fl) ==
    /\ fl["%Y"] >= 1
    /\ fl["%d"] <= DaysInMonth(fl["%Y"], fl["%m"])
    /\ fl["%S"] <= 59

(* int(dt.timestamp()) of the naive datetime, read as local time with the  *)
(* UTC offset zone.                                                        *)
TimestampOf(fl, zone) ==
    DaysFromCivil(fl["%Y"], fl["%m"], fl["%d"]) * 86400
        + fl["%H"] * 3600 + fl["%M"] * 60 + fl["%S"] - zone

(* datetime.datetime.strptime(s, fmt) followed by int(dt.timestamp()):     *)
(* PyInt, or None where either raises.                                     *)
StrptimeTimestamp(v, fmt, zone) ==
    IF v.t # "str" THEN None
    ELSE LET ms == MatchFormat(v.s, 1, fmt, 1, NoFields)
         IN  IF ms = {} THEN None
             ELSE LET fl == CHOOSE m \in ms : TRUE
                  IN  IF ValidDateTime(fl) THEN PyInt(TimestampOf(fl, zone))
                      ELSE None

(* The loop over fmts from position f on. *)
RECURSIVE TryFormats(_, _, _)
TryFormats(v, f, zone) ==
    IF f > Len(fmts) THEN None
    ELSE IF StrptimeTimestamp(v, fmts[f], zone) # None
         THEN StrptimeTimestamp(v, fmts[f], zone)
         ELSE TryFormats(v, f + 1, zone)

parse_time_str(v, zone) ==
    IF v = None THEN None
    ELSE IF IntOf(v) # None THEN IntOf(v)
    ELSE TryFormats(v, 1, zone)

-----------------------------------------------------------------------------
(* Staleness evaluation (lines 160-178).                                   *)

time_fields == <<"LastActivity", "LastActive", "LastSeen", "Time", "Timestamp">>

(* The loop of lines 166-169 from position f on: the value of the first    *)
(* field that is present, None when none is.                               *)
RECURSIVE LastOf(_, _)
LastOf(c, f) ==
    IF f > Len(time_fields) THEN None
    ELSE IF time_fields[f] \in Keys(c) THEN Get(c, time_fields[f])
         ELSE LastOf(c, f + 1)

(* age > THRESHOLD_SECONDS, in half seconds: the boundary is left out.     *)
IsStaleAgeStrict(age2) == age2 > 2 * THRESHOLD_SECONDS

(* age >= THRESHOLD_SECONDS, in half seconds *)
IsStaleAge(age2) == age2 >= 2 * THRESHOLD_SECONDS

(* int(age): truncation toward zero of the age in half seconds.            *)
IntAge(age2) == IF age2 >= 0 THEN age2 \div 2 ELSE 0 - ((0 - age2) \div 2)

(* The loop of lines 163-178 from position j on; returns to_kill.          *)
RECURSIVE StaleLoop(_, _, _, _, _)
StaleLoop(conns, j, nowHalf, zone, kill) ==
    IF j > Len(conns) THEN kill
    ELSE LET c    == conns[j]
             last == LastOf(c, 1)
             ts   == parse_time_str(last, zone)
             age2 == nowHalf - 2 * ts.n
         IN  IF ts = None THEN StaleLoop(conns, j + 1, nowHalf, zone, kill)
             ELSE IF IsStaleAge(age2)
                  THEN StaleLoop(conns, j + 1, nowHalf, zone,
                         Append(kill, [c |-> c, ts |-> ts.n, age |-> IntAge(age2)]))
                  ELSE StaleLoop(conns, j + 1, nowHalf, zone, kill)

StaleConnections(conns, nowHalf, zone) == StaleLoop(conns, 1, nowHalf, zone, <<>>)

-----------------------------------------------------------------------------
(* Connection termination (lines 184-223).                                 *)

actions_to_try == <<"GetActiveConnections", "GetGenericConnections",
                    "GetConnectionList", "GetActivePortMappings",
                    "GetPortMappingNumberOfEntries">>

close_actions == <<"DeleteConnection", "CloseConnection",
                   "ForceCloseConnection", "DestroyConnection">>

(* The identifier as the first field that is present, whatever it holds.   *)
ResolveConnidFirstPresent(c) ==
    IF "ConnectionID" \in Keys(c) THEN Get(c, "ConnectionID")
    ELSE IF "Id" \in Keys(c) THEN Get(c, "Id")
    ELSE Get(c, "ID")

(* connid = c.get("ConnectionID") or c.get("Id") or c.get("ID") *)
ResolveConnid(c) ==
    PyOr(PyOr(Get(c, "ConnectionID"), Get(c, "Id")), Get(c, "ID"))

(* remote = c.get("RemoteHost") or c.get("Description") or "" *)
ResolveRemote(c) ==
    PyOr(PyOr(Get(c, "RemoteHost"), Get(c, "Description")), EmptyStr)

(* port = c.get("RemotePort") or c.get("Port") or "" *)
ResolvePort(c) ==
    PyOr(PyOr(Get(c, "RemotePort"), Get(c, "Port")), EmptyStr)

id_params == <<"ConnectionID", "ID", "Id">>

(* The loop of lines 203-205 with a break after the first binding.         *)
RECURSIVE DeclaredBindingsFirst(_, _, _)
DeclaredBindingsFirst(params, id, f) ==
    IF f > Len(id_params) THEN <<>>
    ELSE IF id_params[f] \in params THEN << <<id_params[f], id>> >>
         ELSE DeclaredBindingsFirst(params, id, f + 1)

(* The loop of lines 203-205 from position f on: one binding per declared  *)
(* name, in the order of the tuple.                                        *)
RECURSIVE DeclaredBindings(_, _, _)
DeclaredBindings(params, id, f) ==
    IF f > Len(id_params) THEN <<>>
    ELSE (IF id_params[f] \in params THEN << <<id_params[f], id>> >> ELSE <<>>)
         \o DeclaredBindings(params, id, f + 1)

(* args as built by lines 199-214, a dict in insertion order.              *)
BuildArgs(params, id, host, prt) ==
    IF Truthy(id)
    THEN IF DeclaredBindings(params, id, 1) # <<>>
         THEN DeclaredBindings(params, id, 1)
         ELSE << <<"ConnectionID", id>> >>
    ELSE (IF Truthy(host) THEN << <<"RemoteHost", host>> >> ELSE <<>>)
         \o (IF Truthy(prt) THEN << <<"RemotePort", prt>> >> ELSE <<>>)

(* The guard of line 192 without the negation lost: always live.           *)
LiveModeAlways(dry) == TRUE

(* if not DRY_RUN *)
LiveMode(dry) == ~dry

-----------------------------------------------------------------------------
(* Inputs of the explored runs.                                            *)

Chars1 == <<"1">>
Chars5 == <<"5">>
Chars7 == <<"7">>
Chars80 == <<"8", "0">>
Chars1000 == <<"1", "0", "0", "0">>
CharsHost == <<"1", ".", "2", ".", "3", ".", "4">>
CharsX == <<"x">>

Raise == [t |-> "raise"]

Hosts1 == <<"H","o","s","t","s","1">>
WANIPConnection1 == <<"W","A","N","I","P","C","o","n","n","e","c","t","i","o","n","1">>
WANPPPConnection1 == <<"W","A","N","P","P","P","C","o","n","n","e","c","t","i","o","n","1">>
wanpppconnection2 == <<"w","a","n","p","p","p","c","o","n","n","e","c","t","i","o","n","2">>
DeviceInfo1 == <<"D","e","v","i","c","e","I","n","f","o","1">>

(* The record of the end-to-end example, and the same content in another   *)
(* field order.                                                            *)
RecA == PyDict(<< <<"ConnectionID", PyStr(Chars1)>>,
                  <<"RemoteHost", PyStr(CharsHost)>>,
                  <<"RemotePort", PyStr(Chars80)>>,
                  <<"LastActivity", PyStr(Chars1000)>> >>)
RecAPermuted == PyDict(<< <<"LastActivity", PyStr(Chars1000)>>,
                          <<"RemotePort", PyStr(Chars80)>>,
                          <<"RemoteHost", PyStr(CharsHost)>>,
                          <<"ConnectionID", PyStr(Chars1)>> >>)
(* No identifier, no endpoint; at the staleness boundary for now = 100000. *)
RecBare == PyDict(<< <<"State", PyStr(CharsX)>>,
                     <<"LastActivity", PyInt(13600)>> >>)
(* A fresh connection. *)
RecFresh == PyDict(<< <<"Id", PyStr(Chars5)>>,
                      <<"LastActivity", PyInt(99999)>> >>)

(* Responses of the read actions in the runs of the whole program.         *)
Responses == {
    PyDict(<< <<"NewConnectionList", PyList(<<RecA, RecBare>>)>> >>),
    PyDict(<< <<"Entry", RecAPermuted>>,
              <<"NewConnectionList", PyList(<<RecFresh>>)>> >>),
    PyDict(<< <<"NewPortMappingNumberOfEntries", PyInt(3)>> >>) }

(* svc.actions of the resolved service: declared action |-> declared       *)
(* parameter names.                                                        *)
ActionsFull == [act \in {"GetGenericConnections", "GetPortMappingNumberOfEntries",
                       "DeleteConnection", "CloseConnection"} |->
                  IF act = "DeleteConnection" THEN {"ConnectionID"} ELSE {}]
ActionsNone == [act \in {"GetInfo"} |-> {}]
ActionsTwoNames == [act \in {"DeleteConnection", "CloseConnection"} |->
                  IF act = "DeleteConnection" THEN {"ConnectionID", "ID"}
                  ELSE {"NewRemoteHost"}]
ActionsLate == [act \in {"GetActiveConnections", "CloseConnection",
                         "ForceCloseConnection", "DestroyConnection"} |->
                  CASE act = "CloseConnection" -> {"Id"}
                    [] act = "ForceCloseConnection" -> {"Id", "ID", "ConnectionID"}
                    [] OTHER -> {}]

NowPool == {200000, 200001}

-----------------------------------------------------------------------------
(* The steps of main().                                                    *)

(* Lines 69-76: resolve the service, or exit(1) when none is found.        *)
Resolve ==
    /\ pc = "resolve"
    /\ svc' = try_service(services, ctorFail, fragments)
    /\ pc' = IF svc' = None THEN "exit1" ELSE "collect"
    /\ UNCHANGED <<DRY_RUN, fragments, services, ctorFail, svcActions, res,
                   found, connections, tz, now2, to_kill, actPos, killPos,
                   closePos, connid, remote, port, closed, readLog, closeLog,
                   reports, outcomes>>

(* svc.call_action(act) with no parameters: the transport answers with a   *)
(* response or raises; a raise is swallowed and the loop continues.        *)
CallRead(r) ==
    /\ readLog' = Append(readLog,
            [action |-> actions_to_try[actPos], args |-> <<>>, result |-> r])
    /\ IF r = Raise
       THEN /\ actPos' = actPos + 1
            /\ UNCHANGED <<pc, res>>
       ELSE /\ res' = r
            /\ pc' = "extract"
            /\ UNCHANGED actPos
    /\ UNCHANGED <<DRY_RUN, fragments, services, ctorFail, svc, svcActions,
                   found, connections, tz, now2, to_kill, killPos, closePos,
                   connid, remote, port, closed, closeLog, reports, outcomes>>

(* Lines 86-90: the action is declared by the service.                     *)
CallDeclared ==
    /\ pc = "collect"
    /\ actPos <= Len(actions_to_try)
    /\ actions_to_try[actPos] \in DOMAIN svcActions
    /\ \E r \in Responses \cup {Raise} : CallRead(r)

(* Skipping an undeclared action instead of trying it.                     *)
CallUndeclaredSkipped ==
    /\ pc = "collect"
    /\ actPos <= Len(actions_to_try)
    /\ actions_to_try[actPos] \notin DOMAIN svcActions
    /\ actPos' = actPos + 1
    /\ UNCHANGED <<pc, DRY_RUN, fragments, services, ctorFail, svc,
                   svcActions, res, found, connections, tz, now2, to_kill,
                   killPos, closePos, connid, remote, port, closed, readLog,
                   closeLog, reports, outcomes>>

(* Lines 112-117: the action is not declared; it is tried all the same.    *)
CallUndeclared ==
    /\ pc = "collect"
    /\ actPos <= Len(actions_to_try)
    /\ actions_to_try[actPos] \notin DOMAIN svcActions
    /\ \E r \in Responses \cup {Raise} : CallRead(r)

(* found = find_conn_nodes(res); connections gains every found record.     *)
Accumulate(nodes) ==
    /\ found' = nodes
    /\ connections' = connections \o nodes
    /\ actPos' = actPos + 1
    /\ pc' = "collect"
    /\ UNCHANGED <<DRY_RUN, fragments, services, ctorFail, svc, svcActions,
                   res, tz, now2, to_kill, killPos, closePos, connid, remote,
                   port, closed, readLog, closeLog, reports, outcomes>>

(* Lines 93-111 *)
ExtractDeclared ==
    /\ pc = "extract"
    /\ actions_to_try[actPos] \in DOMAIN svcActions
    /\ Accumulate(find_conn_nodes(res))

(* Lines 119-136 *)
ExtractUndeclared ==
    /\ pc = "extract"
    /\ actions_to_try[actPos] \notin DOMAIN svcActions
    /\ Accumulate(find_conn_nodes2(res))

(* Lines 139-147: nothing was collected; an informational count query is   *)
(* made when the service declares it, then exit(0).                        *)
NoConnections ==
    /\ pc = "collect"
    /\ actPos > Len(actions_to_try)
    /\ connections = <<>>
    /\ IF "GetPortMappingNumberOfEntries" \in DOMAIN svcActions
       THEN \E r \in Responses \cup {Raise} :
                readLog' = Append(readLog,
                    [action |-> "GetPortMappingNumberOfEntries",
                     args |-> <<>>, result |-> r])
       ELSE UNCHANGED readLog
    /\ pc' = "exit0"
    /\ UNCHANGED <<DRY_RUN, fragments, services, ctorFail, svc, svcActions,
                   res, found, connections, tz, now2, to_kill, actPos,
                   killPos, closePos, connid, remote, port, closed, closeLog,
                   reports, outcomes>>

(* Lines 149-158 *)
Dedup ==
    /\ pc = "collect"
    /\ actPos > Len(actions_to_try)
    /\ connections # <<>>
    /\ connections' = Deduplicate(connections)
    /\ pc' = "evaluate"
    /\ UNCHANGED <<DRY_RUN, fragments, services, ctorFail, svc, svcActions,
                   res, found, tz, now2, to_kill, actPos, killPos, closePos,
                   connid, remote, port, closed, readLog, closeLog, reports,
                   outcomes>>

(* Lines 160-182: read the clock, select the stale connections, exit(0)    *)
(* when there is none.                                                     *)
Evaluate ==
    /\ pc = "evaluate"
    /\ \E n \in NowPool :
        /\ now2' = n
        /\ to_kill' = StaleConnections(connections, n, tz)
    /\ killPos' = 1
    /\ pc' = IF to_kill' = <<>> THEN "exit0" ELSE "report"
    /\ UNCHANGED <<DRY_RUN, fragments, services, ctorFail, svc, svcActions,
                   res, found, connections, tz, actPos, closePos, connid,
                   remote, port, closed, readLog, closeLog, reports, outcomes>>

(* The loop over to_kill moves on to the next stale connection.            *)
AdvanceStale ==
    /\ killPos' = killPos + 1
    /\ pc' = IF killPos = Len(to_kill) THEN "done" ELSE "report"

(* Lines 185-193: resolve the identifiers of the current stale connection  *)
(* and print its report line; in live mode enter the close loop.           *)
Report ==
    /\ pc = "report"
    /\ LET c == to_kill[killPos].c
       IN  /\ connid' = ResolveConnid(c)
           /\ remote' = ResolveRemote(c)
           /\ port' = ResolvePort(c)
           /\ reports' = Append(reports,
                [remote |-> ResolveRemote(c), port |-> ResolvePort(c),
                 connid |-> ResolveConnid(c), ts |-> to_kill[killPos].ts,
                 age |-> to_kill[killPos].age])
    /\ IF LiveMode(DRY_RUN)
       THEN /\ closed' = FALSE
            /\ closePos' = 1
            /\ pc' = "close"
            /\ UNCHANGED killPos
       ELSE /\ AdvanceStale
            /\ UNCHANGED <<closed, closePos>>
    /\ UNCHANGED <<DRY_RUN, fragments, services, ctorFail, svc, svcActions,
                   res, found, connections, tz, now2, to_kill, actPos,
                   readLog, closeLog, outcomes>>

(* The candidate at closePos did not close the connection: go on with the  *)
(* next one, or leave the loop with closed = False (lines 222-223).        *)
NextCandidate ==
    IF closePos < Len(close_actions)
    THEN /\ closePos' = closePos + 1
         /\ UNCHANGED <<pc, killPos, outcomes>>
    ELSE /\ outcomes' = Append(outcomes,
                [k |-> killPos, kind |-> "could_not_close", action |-> ""])
         /\ AdvanceStale
         /\ UNCHANGED closePos

(* Line 197: a close action the service does not declare is passed over.   *)
CloseSkip ==
    /\ pc = "close"
    /\ close_actions[closePos] \notin DOMAIN svcActions
    /\ NextCandidate
    /\ UNCHANGED <<DRY_RUN, fragments, services, ctorFail, svc, svcActions,
                   res, found, connections, tz, now2, to_kill, actPos,
                   connid, remote, port, closed, readLog, closeLog, reports>>

(* Going on with the next candidate after a successful close.              *)
CloseInvokeNoBreak ==
    /\ pc = "close"
    /\ close_actions[closePos] \in DOMAIN svcActions
    /\ \E ok \in BOOLEAN :
        /\ closeLog' = Append(closeLog,
                [k |-> killPos, action |-> close_actions[closePos],
                 args |-> BuildArgs(svcActions[close_actions[closePos]],
                                    connid, remote, port),
                 ok |-> ok])
        /\ closed' = (closed \/ ok)
        /\ IF closePos < Len(close_actions)
           THEN /\ closePos' = closePos + 1
                /\ UNCHANGED <<pc, killPos, outcomes>>
           ELSE /\ outcomes' = Append(outcomes,
                    IF closed \/ ok
                    THEN [k |-> killPos, kind |-> "closed",
                          action |-> close_actions[closePos]]
                    ELSE [k |-> killPos, kind |-> "could_not_close",
                          action |-> ""])
                /\ AdvanceStale
                /\ UNCHANGED closePos
    /\ UNCHANGED <<DRY_RUN, fragments, services, ctorFail, svc, svcActions,
                   res, found, connections, tz, now2, to_kill, actPos,
                   connid, remote, port, readLog, reports>>

(* Lines 198-221: build the arguments and invoke the declared close        *)
(* action; success ends the loop, a raise moves on to the next candidate.  *)
CloseInvoke ==
    /\ pc = "close"
    /\ close_actions[closePos] \in DOMAIN svcActions
    /\ \E ok \in BOOLEAN :
        /\ closeLog' = Append(closeLog,
                [k |-> killPos, action |-> close_actions[closePos],
                 args |-> BuildArgs(svcActions[close_actions[closePos]],
                                    connid, remote, port),
                 ok |-> ok])
        /\ IF ok
           THEN /\ closed' = TRUE
                /\ outcomes' = Append(outcomes,
                        [k |-> killPos, kind |-> "closed",
                         action |-> close_actions[closePos]])
                /\ AdvanceStale
                /\ UNCHANGED closePos
           ELSE /\ NextCandidate
                /\ UNCHANGED closed
    /\ UNCHANGED <<DRY_RUN, fragments, services, ctorFail, svc, svcActions,
                   res, found, connections, tz, now2, to_kill, actPos,
                   connid, remote, port, readLog, reports>>

-----------------------------------------------------------------------------
(* Initial states.                                                         *)

(* Sequences without repetition: fc.services is a dictionary, its names    *)
(* are distinct.                                                           *)
DistinctSeqsUpTo(S, n) ==
    {q \in SeqsUpTo(S, n) : \A x, y \in 1..Len(q) : x # y => q[x] # q[y]}

NonEmptySeqsUpTo(S, n) == SeqsUpTo(S, n) \ {<<>>}

DefaultServices == <<Hosts1, WANIPConnection1, WANPPPConnection1>>

(* The read log of a run in which the first candidate returned `first`,    *)
(* the second `second`, and the others raised.                             *)
LogOfRun(first, second) ==
    [j \in 1..Len(actions_to_try) |->
        [action |-> actions_to_try[j], args |-> <<>>,
         result |-> IF j = 1 THEN first ELSE IF j = 2 THEN second ELSE Raise]]

(* The records the collection loop gathered in that run.                   *)
CollectedOf(first, second) ==
    (IF first = Raise THEN <<>> ELSE find_conn_nodes(first))
        \o (IF second = Raise THEN <<>> ELSE find_conn_nodes(second))

(* Values every run starts with, whatever its inputs.                      *)
Fresh ==
    /\ res = None
    /\ found = <<>>
    /\ connid = None
    /\ remote = EmptyStr
    /\ port = EmptyStr
    /\ closed = FALSE
    /\ closePos = 1
    /\ killPos = 1
    /\ closeLog = <<>>
    /\ reports = <<>>
    /\ outcomes = <<>>

(* main() from its first line, on a gateway that answers from Responses.   *)
Init ==
    /\ pc = "resolve"
    /\ DRY_RUN \in BOOLEAN
    /\ fragments = candidates
    /\ \E setup \in { <<DefaultServices, {}>>,
                      <<DefaultServices, {WANIPConnection1}>>,
                      <<<<Hosts1, DeviceInfo1>>, {DeviceInfo1}>> } :
            services = setup[1] /\ ctorFail = setup[2]
    /\ svc = None
    /\ svcActions \in {ActionsFull, ActionsNone}
    /\ tz = 3600
    /\ now2 = 0
    /\ connections = <<>>
    /\ to_kill = <<>>
    /\ actPos = 1
    /\ readLog = <<>>
    /\ Fresh

Next ==
    \/ Resolve
    \/ CallDeclared
    \/ CallUndeclared
    \/ ExtractDeclared
    \/ ExtractUndeclared
    \/ NoConnections
    \/ Dedup
    \/ Evaluate
    \/ Report
    \/ CloseSkip
    \/ CloseInvoke

Spec == Init /\ [][Next]_vars

(* --- service resolution on arbitrary fragment and service lists ---      *)

FragPool == { candidates[1], candidates[2],
              <<"d","e","v","i","c","e">>, <<"C","O","N","N">> }
NamePool == {Hosts1, WANIPConnection1, WANPPPConnection1, wanpppconnection2,
             DeviceInfo1}
FlakyPool == {WANIPConnection1, WANPPPConnection1}

InitResolve ==
    /\ pc = "resolve"
    /\ DRY_RUN = TRUE
    /\ fragments \in SeqsUpTo(FragPool, MaxFrags)
    /\ services \in DistinctSeqsUpTo(NamePool, MaxServices)
    /\ ctorFail \in SUBSET FlakyPool
    /\ svc = None
    /\ svcActions = ActionsFull
    /\ tz = 3600
    /\ now2 = 0
    /\ connections = <<>>
    /\ to_kill = <<>>
    /\ actPos = 1
    /\ readLog = <<>>
    /\ Fresh

NextResolve == Resolve

SpecResolve == InitResolve /\ [][NextResolve]_vars

(* --- record extraction on response trees ---                             *)

RecNested == PyDict(<< <<"RemoteHost", PyStr(CharsHost)>>,
                       <<"Sub", PyDict(<< <<"Id", PyInt(1)>> >>)>> >>)

Leaves == { None, PyStr(CharsX), PyList(<<>>), RecBare, RecNested,
            PyDict(<< <<"Description", PyStr(CharsX)>> >>) }

Siblings == {RecFresh, PyStr(CharsX)}

WrapKeys == {"NewConnectionList", "State"}

(* One more level around a tree: as the only or one of two values of a     *)
(* mapping, or as the only or one of two elements of a sequence.           *)
Wraps(tree) ==
    {PyDict(<< <<key, tree>> >>) : key \in WrapKeys}
    \cup {PyDict(<< <<"Entry", sib>>, <<key, tree>> >>) :
            sib \in Siblings, key \in WrapKeys}
    \cup {PyDict(<< <<key, tree>>, <<"Entry", sib>> >>) :
            sib \in Siblings, key \in WrapKeys}
    \cup {PyList(<<tree>>)}
    \cup {PyList(<<sib, tree>>) : sib \in Siblings}
    \cup {PyList(<<tree, sib>>) : sib \in Siblings}

RECURSIVE Trees(_)
Trees(depth) ==
    IF depth = 0 THEN Leaves
    ELSE Trees(depth - 1) \cup UNION {Wraps(tree) : tree \in Trees(depth - 1)}

InitExtract ==
    /\ pc = "extract"
    /\ DRY_RUN = TRUE
    /\ fragments = candidates
    /\ services = DefaultServices
    /\ ctorFail = {}
    /\ svc = try_service(DefaultServices, {}, candidates)
    /\ svcActions \in {ActionsFull, ActionsNone}
    /\ res \in Trees(MaxDepth)
    /\ found = <<>>
    /\ tz = 3600
    /\ now2 = 0
    /\ connections = <<>>
    /\ to_kill = <<>>
    /\ actPos = 2
    /\ readLog = SubSeq(LogOfRun(Raise, res), 1, 2)
    /\ connid = None
    /\ remote = EmptyStr
    /\ port = EmptyStr
    /\ closed = FALSE
    /\ closePos = 1
    /\ killPos = 1
    /\ closeLog = <<>>
    /\ reports = <<>>
    /\ outcomes = <<>>

NextExtract == ExtractDeclared \/ ExtractUndeclared

SpecExtract == InitExtract /\ [][NextExtract]_vars

(* --- de-duplication on collected record lists ---                        *)

DedupPool == {
    PyDict(<< <<"Id", PyStr(Chars1)>>, <<"State", PyStr(Chars5)>> >>),
    PyDict(<< <<"State", PyStr(Chars5)>>, <<"Id", PyStr(Chars1)>> >>),
    PyDict(<< <<"Id", PyInt(1)>>, <<"State", PyStr(Chars5)>> >>),
    PyDict(<< <<"Id", PyStr(Chars1)>>, <<"State", PyStr(Chars7)>> >>),
    PyDict(<< <<"Id", PyStr(Chars1)>> >>) }

InitDedup ==
    /\ pc = "collect"
    /\ DRY_RUN = TRUE
    /\ fragments = candidates
    /\ services = DefaultServices
    /\ ctorFail = {}
    /\ svc = try_service(DefaultServices, {}, candidates)
    /\ svcActions = ActionsFull
    /\ \E recs \in NonEmptySeqsUpTo(DedupPool, MaxRecs) :
       \E cut \in 0..Len(recs) :
        /\ readLog = LogOfRun(PyList(SubSeq(recs, 1, cut)),
                              PyList(SubSeq(recs, cut + 1, Len(recs))))
        /\ connections = CollectedOf(PyList(SubSeq(recs, 1, cut)),
                                     PyList(SubSeq(recs, cut + 1, Len(recs))))
    /\ tz = 3600
    /\ now2 = 0
    /\ to_kill = <<>>
    /\ actPos = Len(actions_to_try) + 1
    /\ Fresh

NextDedup == Dedup

SpecDedup == InitDedup /\ [][NextDedup]_vars

(* --- staleness evaluation on de-duplicated record lists ---              *)

CharsNotADate == <<"n","o","t","-","a","-","d","a","t","e">>
Chars13601 == <<"1","3","6","0","1">>
(* 17200 seconds after the epoch when read as UTC *)
CharsIsoDate == <<"1","9","7","0","-","0","1","-","0","1","T","0","4",":","4","6",":","4","0">>
(* 1000 seconds after the epoch when read as UTC *)
CharsGermanDate == <<"0","1",".","0","1",".","1","9","7","0"," ","0","0",":","1","6",":","4","0">>

StalePool == {
    RecBare,
    PyDict(<< <<"Id", PyStr(Chars1)>>, <<"LastActivity", PyStr(Chars13601)>> >>),
    PyDict(<< <<"LastActive", PyStr(Chars1000)>>,
              <<"LastActivity", PyStr(CharsNotADate)>> >>),
    PyDict(<< <<"Id", PyStr(Chars1)>> >>),
    PyDict(<< <<"State", PyStr(CharsX)>>, <<"Timestamp", PyStr(CharsIsoDate)>> >>),
    PyDict(<< <<"Protocol", PyStr(CharsX)>>, <<"Time", PyInt(5)>>,
              <<"LastSeen", PyStr(CharsGermanDate)>> >>),
    PyDict(<< <<"Id", PyStr(Chars5)>>, <<"Time", None>>,
              <<"Timestamp", PyInt(5)>> >>) }

InitStale ==
    /\ pc = "evaluate"
    /\ DRY_RUN = TRUE
    /\ fragments = candidates
    /\ services = DefaultServices
    /\ ctorFail = {}
    /\ svc = try_service(DefaultServices, {}, candidates)
    /\ svcActions = ActionsFull
    /\ \E recs \in NonEmptySeqsUpTo(StalePool, MaxRecs) :
        /\ readLog = LogOfRun(PyList(recs), Raise)
        /\ connections = Deduplicate(CollectedOf(PyList(recs), Raise))
    /\ tz \in {0, 3600}
    /\ now2 = 0
    /\ to_kill = <<>>
    /\ actPos = Len(actions_to_try) + 1
    /\ Fresh

NextStale == Evaluate

SpecStale == InitStale /\ [][NextStale]_vars

(* --- termination of stale connections ---                                *)

TermPool == {
    RecA,
    RecBare,
    PyDict(<< <<"ConnectionID", EmptyStr>>, <<"Id", PyStr(Chars5)>>,
              <<"LastActivity", PyInt(1000)>> >>),
    PyDict(<< <<"ID", PyStr(Chars7)>>, <<"Id", PyStr(Chars5)>>,
              <<"RemoteHost", PyStr(CharsHost)>>,
              <<"LastActivity", PyInt(1000)>> >>),
    PyDict(<< <<"ConnectionID", PyInt(0)>>, <<"Description", PyStr(CharsX)>>,
              <<"Port", PyInt(80)>>, <<"LastActivity", PyInt(1000)>> >>),
    PyDict(<< <<"ID", PyInt(0)>>, <<"ConnectionID", EmptyStr>>,
              <<"LastActivity", PyInt(1000)>> >>) }

InitTerm ==
    /\ pc = "report"
    /\ DRY_RUN \in BOOLEAN
    /\ fragments = candidates
    /\ services = DefaultServices
    /\ ctorFail = {}
    /\ svc = try_service(DefaultServices, {}, candidates)
    /\ svcActions \in {ActionsFull, ActionsNone, ActionsTwoNames, ActionsLate}
    /\ tz = 3600
    /\ now2 = 200000
    /\ \E recs \in NonEmptySeqsUpTo(TermPool, MaxStale) :
        /\ readLog = LogOfRun(PyList(recs), Raise)
        /\ connections = Deduplicate(CollectedOf(PyList(recs), Raise))
        /\ to_kill = StaleConnections(
                        Deduplicate(CollectedOf(PyList(recs), Raise)),
                        200000, 3600)
    /\ actPos = Len(actions_to_try) + 1
    /\ Fresh

NextTerm == Report \/ CloseSkip \/ CloseInvoke

SpecTerm == InitTerm /\ [][NextTerm]_vars

-----------------------------------------------------------------------------
(* Properties.                                                             *)

Min(S) == CHOOSE x \in S : \A y \in S : x <= y

(* Position of a close action in the ranked list. *)
CloseRank(action) ==
    CHOOSE j \in 1..Len(close_actions) : close_actions[j] = action

(* The stale connection at position kk has been dealt with.                *)
Finished(kk) == kk < killPos

(* Positions of the close invocations made for stale connection kk.        *)
EntriesOf(kk) == {e \in 1..Len(closeLog) : closeLog[e].k = kk}

(* C1: with the dry-run flag set, no close action is ever invoked: the     *)
(* close loop is never entered, no close outcome is printed, and every     *)
(* stale connection yields exactly its report line.                        *)
DryRunSendsNothing ==
    DRY_RUN =>
        /\ closeLog = <<>>
        /\ outcomes = <<>>
        /\ pc # "close"
        /\ Len(reports) = (IF pc \in {"report", "done"} THEN killPos - 1 ELSE 0)
        /\ (pc = "done" => Len(reports) = Len(to_kill))

DryRunWitness ==
    /\ DRY_RUN
    /\ pc = "done"
    /\ Len(to_kill) >= 2
    /\ Len(reports) = Len(to_kill)
    /\ \E act \in Range(close_actions) : act \in DOMAIN svcActions

(* Case-insensitive containment, stated on the characters.                 *)
ContainsIgnoringCase(name, frag) ==
    \E p \in 0..(Len(name) - Len(frag)) :
        \A j \in 1..Len(frag) : LowerChar(name[p + j]) = LowerChar(frag[j])

(* Fragments (by position) that are contained in some exposed name.        *)
MatchingFragments ==
    {f \in 1..Len(fragments) :
        \E j \in 1..Len(services) : ContainsIgnoringCase(services[j], fragments[f])}

(* Fragments contained in some exposed name whose handle can be built.     *)
UsableFragments ==
    {f \in 1..Len(fragments) :
        \E j \in 1..Len(services) :
            /\ ContainsIgnoringCase(services[j], fragments[f])
            /\ services[j] \notin ctorFail}

(* C2 as stated: the result is the first name containing the first         *)
(* fragment that matches any name, and None exactly when no fragment is    *)
(* contained in any name.                                                  *)
ResolverFirstMatch ==
    pc # "resolve" =>
        IF MatchingFragments = {} THEN svc = None
        ELSE LET f == Min(MatchingFragments)
                 j == Min({h \in 1..Len(services) :
                            ContainsIgnoringCase(services[h], fragments[f])})
             IN  svc = FritzService(services[j])

(* C2, amended: a matching name whose handle cannot be constructed is      *)
(* passed over.  The result is the first name, in the order of the double  *)
(* loop, that contains the fragment and whose handle is constructed; it is *)
(* None exactly when there is no such pair.                                *)
ResolverFirstUsableMatch ==
    pc # "resolve" =>
        IF UsableFragments = {} THEN svc = None
        ELSE LET f == Min(UsableFragments)
                 j == Min({h \in 1..Len(services) :
                            /\ ContainsIgnoringCase(services[h], fragments[f])
                            /\ services[h] \notin ctorFail})
             IN  svc = FritzService(services[j])

(* A name matched only through lower-casing is chosen after an earlier     *)
(* match failed to construct.                                              *)
ResolverWitness ==
    /\ pc = "collect"
    /\ Len(fragments) = 2
    /\ svc = FritzService(wanpppconnection2)
    /\ \E j \in 1..Len(services) :
        /\ services[j] \in ctorFail
        /\ ContainsIgnoringCase(services[j], fragments[1])
    /\ \E j \in 1..Len(services) :
        /\ services[j] = wanpppconnection2
        /\ j > 1
        /\ ~Contains(services[j], fragments[1])

(* The children of a node, in walk order. *)
Children(node) ==
    IF node.t = "dict" THEN [j \in 1..Len(node.items) |-> node.items[j][2]]
    ELSE IF node.t = "list" THEN node.elems
    ELSE <<>>

(* All paths (sequences of child positions) of a tree. *)
RECURSIVE Paths(_)
Paths(node) ==
    {<<>>} \cup UNION { {<<j>> \o q : q \in Paths(Children(node)[j])} :
                        j \in 1..Len(Children(node)) }

RECURSIVE NodeAt(_, _)
NodeAt(node, path) ==
    IF path = <<>> THEN node
    ELSE NodeAt(Children(node)[Head(path)], Tail(path))

(* Paths of the mappings that meet the hint keys and have no ancestor      *)
(* that does.                                                              *)
OutermostHintPaths(tree) ==
    {path \in Paths(tree) :
        /\ IsHintDict(NodeAt(tree, path))
        /\ \A n \in 0..(Len(path) - 1) :
               ~IsHintDict(NodeAt(tree, SubSeq(path, 1, n)))}

(* Order of the walk on paths none of which is a prefix of the other.      *)
WalksBefore(p, q) ==
    \E n \in 1..Len(p) :
        /\ n <= Len(q)
        /\ SubSeq(p, 1, n - 1) = SubSeq(q, 1, n - 1)
        /\ p[n] < q[n]

(* The sequence nodes lists exactly the nodes of tree at the given paths,  *)
(* in walk order.                                                          *)
ListsInWalkOrder(nodes, tree, paths) ==
    /\ Len(nodes) = Cardinality(paths)
    /\ \A path \in paths :
        nodes[1 + Cardinality({q \in paths : WalksBefore(q, path)})]
            = NodeAt(tree, path)

(* C3: the extractor returns exactly the outermost mappings meeting the    *)
(* hint keys, in walk order; nothing below an emitted mapping is emitted.  *)
ExtractorOutermost ==
    (pc = "collect" /\ actPos = 3) =>
        /\ ListsInWalkOrder(found, res, OutermostHintPaths(res))
        /\ connections = found
        /\ \A p, q \in OutermostHintPaths(res) :
               (p # q /\ Len(p) <= Len(q)) => SubSeq(q, 1, Len(p)) # p

(* One record, found two levels down, that itself holds a nested mapping   *)
(* meeting the hint keys.                                                  *)
ExtractorWitness ==
    /\ pc = "collect"
    /\ actPos = 3
    /\ found = <<RecNested>>
    /\ \E path \in Paths(res) : Len(path) = 2 /\ NodeAt(res, path) = RecNested
    /\ Cardinality({path \in Paths(res) : IsHintDict(NodeAt(res, path))}) = 2

(* The field/value content of a record: its (name, str(value)) pairs as a  *)
(* set, so that the order of the fields plays no part.                     *)
Content(c) == {<<c.items[j][1], Str(c.items[j][2])>> : j \in 1..Len(c.items)}

(* Positions of input whose content occurs at no earlier position.         *)
FirstOccurrences(input) ==
    {j \in 1..Len(input) :
        \A h \in 1..(j - 1) : Content(input[h]) # Content(input[j])}

(* output is input restricted to the positions kept, in input order.       *)
IsRestriction(output, input, kept) ==
    /\ Len(output) = Cardinality(kept)
    /\ \A j \in kept :
        output[1 + Cardinality({h \in kept : h < j})] = input[j]

(* C4: the de-duplication step replaces the collected list by its first    *)
(* occurrences per field/value content, in first-seen order; the output    *)
(* is pairwise distinct by content and covers every input content.         *)
DedupKeepsFirstOccurrences ==
    [][(pc = "collect" /\ pc' = "evaluate") =>
          /\ IsRestriction(connections', connections,
                           FirstOccurrences(connections))
          /\ \A x, y \in 1..Len(connections') :
                x # y => Content(connections'[x]) # Content(connections'[y])
          /\ {Content(connections[j]) : j \in 1..Len(connections)}
                = {Content(connections'[j]) : j \in 1..Len(connections')}
      ]_vars

(* Three records of one content, in two field orders and from two source   *)
(* actions, have collapsed to the first of them.                           *)
DedupWitness ==
    /\ pc = "evaluate"
    /\ Len(connections) = 1
    /\ Len(readLog[1].result.elems) = 2
    /\ Len(readLog[2].result.elems) = 1
    /\ connections[1] = readLog[1].result.elems[1]
    /\ readLog[2].result.elems[1] # connections[1]
    /\ readLog[2].result.elems[1].items[1][1] # connections[1].items[1][1]

(* Priority positions of the time fields the record has.                   *)
PresentTimeFields(c) ==
    {f \in 1..Len(time_fields) : time_fields[f] \in Keys(c)}

(* The timestamp parsed from the first present time field of the record;   *)
(* None when it has no time field or the value does not parse.             *)
ResolvedTimestamp(c) ==
    IF PresentTimeFields(c) = {} THEN None
    ELSE parse_time_str(Get(c, time_fields[Min(PresentTimeFields(c))]), tz)

(* Positions of the records that are stale at the time read.               *)
StalePositions ==
    {j \in 1..Len(connections) :
        /\ ResolvedTimestamp(connections[j]) # None
        /\ now2 - 2 * ResolvedTimestamp(connections[j]).n >= 2 * 86400}

(* C5: a record is selected exactly when its first present time field      *)
(* parses and its age has reached the threshold; the selection keeps the   *)
(* input order and carries the timestamp and the truncated age.            *)
StaleExactlyAtThreshold ==
    (pc \in {"report", "exit0"} /\ now2 # 0) =>
        /\ IsRestriction([j \in 1..Len(to_kill) |-> to_kill[j].c],
                         connections, StalePositions)
        /\ \A j \in 1..Len(to_kill) :
            /\ PyInt(to_kill[j].ts) = ResolvedTimestamp(to_kill[j].c)
            /\ 2 * to_kill[j].age <= now2 - 2 * to_kill[j].ts
            /\ now2 - 2 * to_kill[j].ts < 2 * to_kill[j].age + 2
        /\ (pc = "exit0" <=> StalePositions = {})

(* A record exactly at the threshold is selected, after one whose first    *)
(* present time field does not parse although a later one would.           *)
StaleWitness ==
    /\ pc = "report"
    /\ now2 = 200000
    /\ Len(connections) = 3
    /\ Len(to_kill) = 2
    /\ PresentTimeFields(connections[1]) = {1, 2}
    /\ ResolvedTimestamp(connections[1]) = None
    /\ to_kill[1].c = connections[2]
    /\ to_kill[1].age = 86400
    /\ to_kill[2].c.items[2][2].t = "str"

IdNames == {"ConnectionID", "ID", "Id"}

(* Position of an identifier parameter name in the tuple of line 203.      *)
IdParamRank(name) == CHOOSE j \in 1..Len(id_params) : id_params[j] = name

(* Close invocations made for a connection with a resolved identifier, by  *)
(* an action that declares at least one identifier parameter.              *)
IdBoundEntries ==
    {e \in 1..Len(closeLog) :
        /\ Truthy(reports[closeLog[e].k].connid)
        /\ svcActions[closeLog[e].action] \cap IdNames # {}}

(* C6 as stated: such an invocation carries exactly one parameter, the     *)
(* first declared identifier name bound to the identifier.                 *)
BindsFirstDeclaredNameOnly ==
    \A e \in IdBoundEntries :
        LET declared == svcActions[closeLog[e].action] \cap IdNames
            first == id_params[Min({IdParamRank(name) : name \in declared})]
        IN  closeLog[e].args = << <<first, reports[closeLog[e].k].connid>> >>

(* C6, amended: such an invocation binds the identifier to every declared  *)
(* name among ConnectionID, ID, Id, in that order, and carries nothing     *)
(* else; it has exactly one entry when exactly one of them is declared.    *)
BindsEveryDeclaredName ==
    \A e \in IdBoundEntries :
        LET declared == svcActions[closeLog[e].action] \cap IdNames
            args == closeLog[e].args
        IN  /\ Len(args) = Cardinality(declared)
            /\ {args[j][1] : j \in 1..Len(args)} = declared
            /\ \A j \in 1..Len(args) :
                   args[j][2] = reports[closeLog[e].k].connid
            /\ \A x, y \in 1..Len(args) :
                   x < y => IdParamRank(args[x][1]) < IdParamRank(args[y][1])

(* One invocation with a single declared name, one with all three.        *)
BindsWitness ==
    /\ ~DRY_RUN
    /\ \E e \in IdBoundEntries :
        /\ Len(closeLog[e].args) = 3
        /\ closeLog[e].args[1][1] = "ConnectionID"
        /\ closeLog[e].args[2][1] = "ID"
        /\ closeLog[e].args[3][1] = "Id"
    /\ \E e \in IdBoundEntries : Len(closeLog[e].args) = 1

(* Number of candidates of the collection loop dealt with so far.          *)
ReadsDone ==
    IF pc \in {"resolve", "exit1"} THEN 0
    ELSE IF actPos > Len(actions_to_try) THEN Len(actions_to_try)
    ELSE IF pc = "extract" THEN actPos ELSE actPos - 1

(* The records of the successful responses among the first n reads.        *)
RECURSIVE RecordsOfReads(_)
RecordsOfReads(n) ==
    IF n = 0 THEN <<>>
    ELSE RecordsOfReads(n - 1)
            \o (IF readLog[n].result = Raise THEN <<>>
                ELSE find_conn_nodes(readLog[n].result))

(* C7: every candidate read action is invoked, in list order and without   *)
(* parameters, declared or not; a raise stops nothing; the records of the  *)
(* successful responses pile up in candidate order, duplicates included.   *)
CollectorTriesEveryCandidate ==
    /\ Len(readLog) >= ReadsDone
    /\ \A j \in 1..ReadsDone :
        /\ readLog[j].action = actions_to_try[j]
        /\ readLog[j].args = <<>>
    /\ pc \in {"evaluate", "report", "close", "done", "exit0"}
            => ReadsDone = Len(actions_to_try)
    /\ pc = "collect" => connections = RecordsOfReads(ReadsDone)
    /\ pc = "extract" => connections = RecordsOfReads(ReadsDone - 1)

(* No candidate is declared, the first raised, the others answered, and    *)
(* the collected list holds a record twice.                                *)
CollectorWitness ==
    /\ pc = "collect"
    /\ actPos = Len(actions_to_try) + 1
    /\ svcActions = ActionsNone
    /\ readLog[1].result = Raise
    /\ \A j \in 2..Len(actions_to_try) : readLog[j].result # Raise
    /\ \E x, y \in 1..Len(connections) : x < y /\ connections[x] = connections[y]

(* Declared close candidates, by rank. *)
DeclaredRanks ==
    {j \in 1..Len(close_actions) : close_actions[j] \in DOMAIN svcActions}

(* C8: in live mode the close candidates of a stale connection are invoked *)
(* in ranked order up to the first success; a raise is followed by the     *)
(* next candidate; the outcome is "closed via" the succeeding action, or   *)
(* "could not close" when none succeeded; every stale connection gets its  *)
(* turn whatever happened to the ones before.                              *)
CloseStopsAtFirstSuccess ==
    ~DRY_RUN =>
        /\ \A e1, e2 \in 1..Len(closeLog) :
            e1 < e2 =>
                /\ closeLog[e1].k <= closeLog[e2].k
                /\ closeLog[e1].k = closeLog[e2].k =>
                    /\ ~closeLog[e1].ok
                    /\ CloseRank(closeLog[e1].action)
                            < CloseRank(closeLog[e2].action)
        /\ \A kk \in 1..Len(to_kill) :
            Finished(kk) =>
                LET invoked == {CloseRank(closeLog[e].action) : e \in EntriesOf(kk)}
                    won == {e \in EntriesOf(kk) : closeLog[e].ok}
                    said == {o \in 1..Len(outcomes) : outcomes[o].k = kk}
                IN  /\ Cardinality(won) <= 1
                    /\ Cardinality(said) = 1
                    /\ \A o \in said :
                        IF won = {}
                        THEN /\ outcomes[o].kind = "could_not_close"
                             /\ invoked = DeclaredRanks
                        ELSE /\ outcomes[o].kind = "closed"
                             /\ \A e \in won :
                                /\ outcomes[o].action = closeLog[e].action
                                /\ invoked = {j \in DeclaredRanks :
                                        j <= CloseRank(closeLog[e].action)}
        /\ (pc = "done" =>
                /\ Len(outcomes) = Len(to_kill)
                /\ \A o \in 1..Len(outcomes) : outcomes[o].k = o)

(* The first stale connection could not be closed, the second was closed   *)
(* by the second declared candidate after the first one raised.            *)
CloseWitness ==
    /\ ~DRY_RUN
    /\ pc = "done"
    /\ Len(outcomes) = 2
    /\ outcomes[1].kind = "could_not_close"
    /\ outcomes[2].kind = "closed"
    /\ Cardinality(EntriesOf(1)) = 3
    /\ Cardinality(EntriesOf(2)) = 2

id_fields == <<"ConnectionID", "Id", "ID">>

(* C9 as stated: the identifier is the value of the first of ConnectionID, *)
(* Id, ID the record has, whatever the value; none is resolved only when   *)
(* the record has none of the three.                                       *)
IdentifierIsFirstPresent ==
    \A j \in 1..Len(reports) :
        LET c == to_kill[j].c
            present == {f \in 1..Len(id_fields) : id_fields[f] \in Keys(c)}
        IN  IF present = {} THEN reports[j].connid = None
            ELSE reports[j].connid = Get(c, id_fields[Min(present)])

(* C9, amended: the identifier is the value of the first of ConnectionID,  *)
(* Id, ID that holds a truthy value (not None, not empty, not zero); a     *)
(* field that is absent or holds a falsy value is passed over, and when    *)
(* none holds a truthy value no identifier is resolved (what is left is    *)
(* the falsy value of ID, or None).                                        *)
IdentifierIsFirstTruthy ==
    \A j \in 1..Len(reports) :
        LET c == to_kill[j].c
            usable == {f \in 1..Len(id_fields) :
                        /\ id_fields[f] \in Keys(c)
                        /\ Truthy(Get(c, id_fields[f]))}
        IN  IF usable = {}
            THEN /\ ~Truthy(reports[j].connid)
                 /\ reports[j].connid = Get(c, "ID")
            ELSE reports[j].connid = Get(c, id_fields[Min(usable)])

(* A record whose ConnectionID is the empty string resolved to its Id, and *)
(* one whose only identifier field holds 0 resolved to nothing.            *)
IdentifierWitness ==
    /\ Len(reports) = 2
    /\ Get(to_kill[1].c, "ConnectionID") = EmptyStr
    /\ reports[1].connid = PyStr(Chars5)
    /\ Get(to_kill[2].c, "ConnectionID") = PyInt(0)
    /\ reports[2].connid = None

(* C10: every close invocation carries at least one parameter; a stale     *)
(* record without identifier, remote host and remote port causes no        *)
(* invocation and ends as "could not close".                               *)
CloseAlwaysNamesTheConnection ==
    /\ \A e \in 1..Len(closeLog) : closeLog[e].args # <<>>
    /\ \A kk \in 1..Len(to_kill) :
        (/\ ~DRY_RUN
         /\ Finished(kk)
         /\ ~Truthy(reports[kk].connid)
         /\ ~Truthy(reports[kk].remote)
         /\ ~Truthy(reports[kk].port)) =>
            /\ EntriesOf(kk) = {}
            /\ \E o \in 1..Len(outcomes) :
                outcomes[o].k = kk /\ outcomes[o].kind = "could_not_close"

====
